---- MODULE Spec2Model ----
(***************************************************************************)
(* Message-state synchronisation of the SEPHealth push client (src/App.js):*)
(* the Store (`messages`), the Seen-Notification Ledger                   *)
(* (`shownNotifications`), the poll timer, the realtime `statusUpdate`    *)
(* listener and `fetchMessages` with its alert decision.                  *)
(*                                                                         *)
(* Every action is one run-to-completion step of the JavaScript event     *)
(* loop: a handler runs from its start (or from the resumption of an      *)
(* `await`) to its next `await` without interleaving.                     *)
(*                                                                         *)
(* Times are milliseconds relative to the instant of mount (T0 = 0).      *)
(* Device registration, the push token and the button-disabling flag      *)
(* testingNotification are outside the model.                              *)
(***************************************************************************)
EXTENDS Integers, Sequences, FiniteSets, TLC

VARIABLES
    isWeb,          \* Platform.OS === 'web'
    now,            \* Date.now()
    backend,        \* the server's message collection (what GET /api/push-messages returns)
    usedIds,        \* identities the server has ever created
    bops,           \* number of server-side changes so far
    events,         \* statusUpdate events emitted by the server, not yet delivered
    socket,         \* the socket.io client: "open" (until disconnect()) | "closed"
    mounted,        \* the App component is mounted
    pollingTimer,   \* pollingTimer.current holds a live interval
    nextTick,       \* instant at which the interval is next due
    messages,       \* the Store: useState([]) messages
    shown,          \* the Ledger: shownNotifications.current
    seeded,         \* the bulk marking of App.js 236-243 has run at least once
    inflight,       \* fetchMessages() calls that have not finished
    nStarted,       \* number of fetchMessages() calls so far
    loading,        \* useState(false) loading
    refreshing,     \* useState(false) refreshing
    alertCount,     \* per identity: alerts fired by the decision code of fetchMessages
    last            \* what the most recent step did

vars == << isWeb, now, backend, usedIds, bops, events, socket, mounted,
           pollingTimer, nextTick, messages, shown, seeded, inflight,
           nStarted, loading, refreshing, alertCount, last >>

----------------------------------------------------------------------------
(* Bounds and input sets *)

MaxFetches == 3
MaxBackendOps == 2
MaxStimuli == 4

Ids == {"a", "b"}

(* the instants the clock visits: mount, 2 s later, and 121 s after mount, so
   that a message is 119 s or 121 s old at a decision *)
Instants == {0, 2000, 121000}

(* Program constants *)

PollIntervalMs == 60000
FetchTimeoutMs == 10000
RecencyWindowMs == 2 * 60 * 1000

NoDate == -1       \* an absent (undefined) deliveredAt
AlertStatus == "Sent"

----------------------------------------------------------------------------
(* Messages and events *)

Msg(id, st, d, u) == [id |-> id, status |-> st, deliveredAt |-> d, updatedAt |-> u]

NoEv == [messageId |-> "none", status |-> "none", deliveredAt |-> NoDate]

IdsOf(batch) == {batch[i].id : i \in 1..Len(batch)}

SentIds(batch) == {batch[i].id : i \in {j \in 1..Len(batch) : batch[j].status = "Sent"}}

Find(batch, id) == CHOOSE i \in 1..Len(batch) : batch[i].id = id

----------------------------------------------------------------------------
(* The run is bounded: at most MaxFetches calls of fetchMessages, at most
   MaxBackendOps server changes, at most MaxStimuli of both together. *)

CanFetch == nStarted < MaxFetches /\ nStarted + bops < MaxStimuli

CanChange == bops < MaxBackendOps /\ nStarted + bops < MaxStimuli

----------------------------------------------------------------------------
(* fetchMessages(isPoll): which callers pass isPoll = true *)

MountIsPoll == FALSE
RefreshIsPollMutant == TRUE
RefreshIsPoll == FALSE
TestSendIsPoll == FALSE
TickIsPoll == TRUE
RealtimeIsPollMutant == FALSE
RealtimeIsPoll == TRUE

IsPoll(kind) ==
    CASE kind = "mount" -> MountIsPoll
      [] kind = "manual" -> RefreshIsPoll
      [] kind = "testsend" -> TestSendIsPoll
      [] kind = "tick" -> TickIsPoll
      [] kind = "realtime" -> RealtimeIsPoll

Kinds == {"mount", "manual", "testsend", "tick", "realtime"}

NewFetch(kind) == [kind |-> kind, t0 |-> now, phase |-> "sent", data |-> << >>]

(* const sentAt = msg.deliveredAt ? new Date(msg.deliveredAt) : new Date(msg.updatedAt) *)
SentAtMutant(msg) == msg.updatedAt
SentAt(msg) == IF msg.deliveredAt # NoDate THEN msg.deliveredAt ELSE msg.updatedAt

(* const twoMinutesAgo = new Date(Date.now() - 2 * 60 * 1000) *)
TwoMinutesAgo(t) == t - RecencyWindowMs

(* msg.status === 'Sent' && !shownNotifications.current.has(msg._id) && sentAt > twoMinutesAgo *)
ShouldAlertMutantNoLedger(msg, led, t) ==
    /\ msg.status = AlertStatus
    /\ SentAt(msg) > TwoMinutesAgo(t)
ShouldAlertMutantNoWindow(msg, led, t) ==
    /\ msg.status = AlertStatus
    /\ msg.id \notin led
ShouldAlert(msg, led, t) ==
    /\ msg.status = AlertStatus
    /\ msg.id \notin led
    /\ SentAt(msg) > TwoMinutesAgo(t)

(* shownNotifications.current.add(msg._id), in the step that sends the alert *)
MarkSeenMutantSkip(led, id) == led
MarkSeen(led, id) == led \cup {id}

(* fetchedMessages.forEach(msg => { if (...) { send; shownNotifications.current.add } })
   st = [led, fired, count] threaded through the iterations in order *)
RECURSIVE AlertLoop(_, _, _, _)
AlertLoop(batch, i, st, t) ==
    IF i > Len(batch) THEN st
    ELSE LET msg == batch[i] IN
         IF ShouldAlert(msg, st.led, t)
         THEN AlertLoop(batch, i + 1,
                        [led |-> MarkSeen(st.led, msg.id),
                         fired |-> st.fired \cup {msg.id},
                         count |-> [st.count EXCEPT ![msg.id] = @ + 1]], t)
         ELSE AlertLoop(batch, i + 1, st, t)

(* if (!isPoll) fetchedMessages.forEach(msg => { if (msg.status === 'Sent') add(msg._id) }) *)
SeedMutantNone(batch, led) == led
SeedMutantReplace(batch, led) == SentIds(batch)
SeedMutantAll(batch, led) == led \cup IdsOf(batch)
Seed(batch, led) == led \cup SentIds(batch)

(* setMessages(fetchedMessages) *)
MergeMutantFirstOnly(store, batch) == IF store = << >> THEN batch ELSE store
MergeMutantAccumulate(store, batch) ==
    store \o SelectSeq(batch, LAMBDA m : m.id \notin IdsOf(store))
Merge(store, batch) == batch

(* setMessages(prev => prev.map(msg => msg._id === update.messageId
      ? { ...msg, status: update.status, deliveredAt: update.deliveredAt } : msg)) *)
ApplyPartialMutantUpsert(store, ev) ==
    IF ev.messageId \in IdsOf(store)
    THEN [i \in 1..Len(store) |->
            IF store[i].id = ev.messageId
            THEN [store[i] EXCEPT !.status = ev.status, !.deliveredAt = ev.deliveredAt]
            ELSE store[i]]
    ELSE Append(store, Msg(ev.messageId, ev.status, ev.deliveredAt, ev.deliveredAt))
ApplyPartial(store, ev) ==
    [i \in 1..Len(store) |->
        IF store[i].id = ev.messageId
        THEN [store[i] EXCEPT !.status = ev.status, !.deliveredAt = ev.deliveredAt]
        ELSE store[i]]

(* update.status === 'Sent' && !shownNotifications.current.has(update.messageId) *)
TriggersFetchMutant(ev, led) == ev.status = "Sent"
TriggersFetch(ev, led) == ev.status = "Sent" /\ ev.messageId \notin led

----------------------------------------------------------------------------
(* The record of the most recent step *)

(* op: what ran; kind: the fetch concerned; batch: the fetched messages it
   processed; ev: the event it handled; fired: identities it presented an
   alert for; shown0, msgs0: the Ledger and the Store when it began; cold: no
   bulk marking had run when it began; started: it called fetchMessages;
   dialog: it raised the connection-error dialog *)
Step(op, kind, batch, ev, fired, started, dialog) ==
    [op |-> op, kind |-> kind, batch |-> batch, ev |-> ev, fired |-> fired,
     shown0 |-> shown, msgs0 |-> messages, cold |-> ~seeded,
     started |-> started, dialog |-> dialog]

Env == [op |-> "env", kind |-> "none", batch |-> << >>, ev |-> NoEv, fired |-> {},
        shown0 |-> {}, msgs0 |-> << >>, cold |-> FALSE,
        started |-> FALSE, dialog |-> FALSE]

Client(op, kind) == Step(op, kind, << >>, NoEv, {}, FALSE, FALSE)

----------------------------------------------------------------------------
(* Initial state: the mount effect has run (App.js 42-116): the first
   fetchMessages() is in flight with loading = true, the interval is armed on
   native platforms, the socket is open. *)

Init ==
    /\ isWeb \in BOOLEAN
    /\ now = 0
    /\ backend = << >>
    /\ usedIds = {}
    /\ bops = 0
    /\ events = << >>
    /\ socket = "open"
    /\ mounted = TRUE
    /\ pollingTimer = ~isWeb
    /\ nextTick = PollIntervalMs
    /\ messages = << >>
    /\ shown = {}
    /\ seeded = FALSE
    /\ inflight = << NewFetch("mount") >>
    /\ nStarted = 1
    /\ loading = TRUE
    /\ refreshing = FALSE
    /\ alertCount = [i \in Ids |-> 0]
    /\ last = Env

clientVars == << mounted, pollingTimer, nextTick, messages, shown, seeded, inflight,
                 nStarted, loading, refreshing, alertCount, socket >>
serverVars == << backend, usedIds, bops >>

----------------------------------------------------------------------------
(* Environment: the clock *)

AdvanceClock(t) ==
    /\ t > now
    /\ now' = t
    /\ last' = Env
    /\ UNCHANGED << isWeb, events >>
    /\ UNCHANGED clientVars
    /\ UNCHANGED serverVars

----------------------------------------------------------------------------
(* Environment: the server.  It owns the message collection and emits a
   statusUpdate event {messageId, status, deliveredAt?} on a status change.
   A message is created Scheduled, or already Sent (the /immediate endpoint),
   and moves from Scheduled to Sent or Failed; an identity is never reused. *)

(* identities are opaque: the server hands them out in a fixed order *)
IdBefore(j, id) == j = "a" /\ id = "b"

Emit(id, st, d) == Append(events, [messageId |-> id, status |-> st, deliveredAt |-> d])

ServerStep ==
    /\ CanChange
    /\ bops' = bops + 1
    /\ last' = Env
    /\ UNCHANGED << isWeb, now >>
    /\ UNCHANGED clientVars

BackendCreate(id, st, withDelivered, evDelivered) ==
    /\ ServerStep
    /\ id \notin usedIds
    /\ \A j \in Ids : IdBefore(j, id) => j \in usedIds
    /\ evDelivered => withDelivered
    /\ st = "Scheduled" => ~withDelivered
    /\ LET d == IF withDelivered THEN now ELSE NoDate IN
       /\ backend' = Append(backend, Msg(id, st, d, now))
       /\ events' = IF st = "Sent"
                    THEN Emit(id, st, IF evDelivered THEN d ELSE NoDate)
                    ELSE events
    /\ usedIds' = usedIds \cup {id}

BackendSend(id, withDelivered, evDelivered) ==
    /\ ServerStep
    /\ id \in IdsOf(backend)
    /\ backend[Find(backend, id)].status = "Scheduled"
    /\ evDelivered => withDelivered
    /\ LET d == IF withDelivered THEN now ELSE NoDate IN
       /\ backend' = [backend EXCEPT ![Find(backend, id)] = Msg(id, "Sent", d, now)]
       /\ events' = Emit(id, "Sent", IF evDelivered THEN d ELSE NoDate)
    /\ UNCHANGED usedIds

BackendFail(id) ==
    /\ ServerStep
    /\ id \in IdsOf(backend)
    /\ backend[Find(backend, id)].status = "Scheduled"
    /\ backend' = [backend EXCEPT ![Find(backend, id)] = Msg(id, "Failed", NoDate, now)]
    /\ events' = Emit(id, "Failed", NoDate)
    /\ UNCHANGED usedIds

(* a change that leaves the status alone (an edit): only updatedAt moves *)
BackendTouch(id) ==
    /\ ServerStep
    /\ id \in IdsOf(backend)
    /\ backend[Find(backend, id)].status = "Sent"
    /\ backend[Find(backend, id)].updatedAt < now
    /\ backend' = [backend EXCEPT ![Find(backend, id)].updatedAt = now]
    /\ UNCHANGED << events, usedIds >>

----------------------------------------------------------------------------
(* Client: the socket.io listener.  Events reach the client in the order of
   their emission; the events emitted before the delivered one and not yet
   delivered are lost (connection not yet up, or down). *)

(* socket.on('statusUpdate', update => ...) *)
StatusUpdate(k) ==
    /\ socket = "open"
    /\ k \in 1..Len(events)
    /\ LET ev == events[k]
           start == TriggersFetch(ev, shown)
       IN
       /\ start => CanFetch
       /\ events' = SubSeq(events, k + 1, Len(events))
       /\ messages' = ApplyPartial(messages, ev)
       /\ inflight' = IF start THEN Append(inflight, NewFetch("realtime")) ELSE inflight
       /\ nStarted' = IF start THEN nStarted + 1 ELSE nStarted
       /\ loading' = IF start /\ ~IsPoll("realtime") THEN TRUE ELSE loading
       /\ last' = Step("statusUpdate", "realtime", << >>, ev, {}, start, FALSE)
    /\ UNCHANGED << isWeb, now, socket, mounted, pollingTimer, nextTick, shown, seeded,
                    refreshing, alertCount >>
    /\ UNCHANGED serverVars

(* setInterval(() => fetchMessages(true), 60000) *)
Tick ==
    /\ pollingTimer
    /\ now >= nextTick
    /\ CanFetch
    /\ nextTick' = nextTick + PollIntervalMs
    /\ inflight' = Append(inflight, NewFetch("tick"))
    /\ nStarted' = nStarted + 1
    /\ loading' = IF ~IsPoll("tick") THEN TRUE ELSE loading
    /\ last' = [Client("tick", "tick") EXCEPT !.started = TRUE]
    /\ UNCHANGED << isWeb, now, events, socket, mounted, pollingTimer, messages,
                    shown, seeded, refreshing, alertCount >>
    /\ UNCHANGED serverVars

(* onRefresh: setRefreshing(true); fetchMessages() *)
OnRefresh ==
    /\ mounted
    /\ CanFetch
    /\ refreshing' = TRUE
    /\ inflight' = Append(inflight, NewFetch("manual"))
    /\ nStarted' = nStarted + 1
    /\ loading' = IF ~IsPoll("manual") THEN TRUE ELSE loading
    /\ last' = [Client("refresh", "manual") EXCEPT !.started = TRUE]
    /\ UNCHANGED << isWeb, now, events, socket, mounted, pollingTimer, nextTick,
                    messages, shown, seeded, alertCount >>
    /\ UNCHANGED serverVars

(* sendTestNotification once its POST has answered with result.success:
   await fetchMessages() *)
TestSendRefresh ==
    /\ mounted
    /\ CanFetch
    /\ inflight' = Append(inflight, NewFetch("testsend"))
    /\ nStarted' = nStarted + 1
    /\ loading' = IF ~IsPoll("testsend") THEN TRUE ELSE loading
    /\ last' = [Client("testSend", "testsend") EXCEPT !.started = TRUE]
    /\ UNCHANGED << isWeb, now, events, socket, mounted, pollingTimer, nextTick,
                    messages, shown, seeded, refreshing, alertCount >>
    /\ UNCHANGED serverVars

(* the Test button of a message card: sendNotificationFromMessage(message),
   which presents the message (Alert.alert on web, scheduleNotificationAsync
   otherwise) and touches neither the Store nor the Ledger *)
PreviewMutantMarks(i) ==
    /\ mounted
    /\ i \in 1..Len(messages)
    /\ messages[i].id \notin shown
    /\ shown' = shown \cup {messages[i].id}
    /\ last' = [Client("preview", "none") EXCEPT !.fired = {messages[i].id}]
    /\ UNCHANGED << isWeb, now, events, mounted, pollingTimer, nextTick, messages,
                    seeded, inflight, nStarted, loading, refreshing, alertCount,
                    socket >>
    /\ UNCHANGED serverVars
Preview(i) ==
    /\ mounted
    /\ i \in 1..Len(messages)
    /\ last' = [Client("preview", "none") EXCEPT !.fired = {messages[i].id}]
    /\ UNCHANGED << isWeb, now, events >>
    /\ UNCHANGED clientVars
    /\ UNCHANGED serverVars

(* clearInterval(pollingTimer.current): the interval never fires again *)
ClearIntervalMutant(timer) == timer
ClearInterval(timer) == FALSE

(* socket.disconnect(): closes the connection, a no-op on a closed socket *)
DisconnectMutantToggle(s) == IF s = "open" THEN "closed" ELSE "open"
Disconnect(s) == "closed"

(* the effect's cleanup: if (!isWeb) { ...; if (pollingTimer.current)
   clearInterval(pollingTimer.current) }; socket.disconnect().  It has no
   guard: it can be run again on a component already torn down, which the
   record of the step marks with kind "repeat". *)
Teardown ==
    /\ mounted' = FALSE
    /\ pollingTimer' = IF ~isWeb /\ pollingTimer
                       THEN ClearInterval(pollingTimer)
                       ELSE pollingTimer
    /\ socket' = Disconnect(socket)
    /\ last' = [Client("teardown", "none") EXCEPT
                   !.kind = IF mounted THEN "none" ELSE "repeat"]
    /\ UNCHANGED << isWeb, now, events, nextTick, messages, shown, seeded, inflight,
                    nStarted, loading, refreshing, alertCount >>
    /\ UNCHANGED serverVars

----------------------------------------------------------------------------
(* fetchMessages after its call: the awaits of App.js 209 and 223 *)

Remove(q, i) == SubSeq(q, 1, i - 1) \o SubSeq(q, i + 1, Len(q))

(* finally { if (!isPoll) { setLoading(false); setRefreshing(false) } } *)
Finish(i) ==
    LET f == inflight[i] IN
    /\ inflight' = Remove(inflight, i)
    /\ loading' = IF ~IsPoll(f.kind) THEN FALSE ELSE loading
    /\ refreshing' = IF ~IsPoll(f.kind) THEN FALSE ELSE refreshing

(* the response headers arrive with response.ok: clearTimeout(timeoutId), then
   await response.json(); the body is the server's collection at this instant *)
FetchRespond(i) ==
    /\ i \in 1..Len(inflight)
    /\ inflight[i].phase = "sent"
    /\ now < inflight[i].t0 + FetchTimeoutMs
    /\ inflight' = [inflight EXCEPT ![i].phase = "body", ![i].data = backend]
    /\ last' = Env
    /\ UNCHANGED << isWeb, now, events, socket, mounted, pollingTimer, nextTick,
                    messages, shown, seeded, nStarted, loading, refreshing, alertCount >>
    /\ UNCHANGED serverVars

(* catch (error) { ... }: the branch of App.js 230-257 is skipped, the Store
   keeps the value it had *)
CatchStoreMutant(store) == << >>
CatchStore(store) == store

(* if (!isPoll) { console.error(...); Alert.alert('Connection Error', ...) } *)
ShowsDialogMutant(isPoll) == TRUE
ShowsDialog(isPoll) == ~isPoll

(* a catch block that calls fetchMessages again, which the code does not *)
FetchFailMutantRetries(i, cause) ==
    /\ i \in 1..Len(inflight)
    /\ CanFetch
    /\ LET f == inflight[i] IN
       /\ CASE cause = "network" -> f.phase = "sent"
            [] cause = "http" -> f.phase = "sent" /\ now < f.t0 + FetchTimeoutMs
            [] cause = "timeout" -> f.phase = "sent" /\ now >= f.t0 + FetchTimeoutMs
            [] cause = "malformed" -> f.phase = "body"
       /\ inflight' = Append(Remove(inflight, i), NewFetch(f.kind))
       /\ nStarted' = nStarted + 1
       /\ last' = [Client("fetchFail", f.kind) EXCEPT
                      !.dialog = ShowsDialog(IsPoll(f.kind)), !.started = TRUE]
    /\ UNCHANGED << isWeb, now, events, socket, mounted, pollingTimer, nextTick,
                    messages, shown, seeded, loading, refreshing, alertCount >>
    /\ UNCHANGED serverVars

(* the catch block: fetch() rejects (network error, or the abort of the 10 s
   timer), the response is not ok, or response.json() rejects *)
FetchFail(i, cause) ==
    /\ i \in 1..Len(inflight)
    /\ LET f == inflight[i] IN
       /\ CASE cause = "network" -> f.phase = "sent"
            [] cause = "http" -> f.phase = "sent" /\ now < f.t0 + FetchTimeoutMs
            [] cause = "timeout" -> f.phase = "sent" /\ now >= f.t0 + FetchTimeoutMs
            [] cause = "malformed" -> f.phase = "body"
       /\ Finish(i)
       /\ messages' = CatchStore(messages)
       /\ last' = [Client("fetchFail", f.kind) EXCEPT
                      !.dialog = ShowsDialog(IsPoll(f.kind))]
    /\ UNCHANGED << isWeb, now, events, socket, mounted, pollingTimer, nextTick,
                    shown, seeded, nStarted, alertCount >>
    /\ UNCHANGED serverVars

(* if (!isWeb && isPoll): the decision loop runs for poll-mode fetches on
   native platforms only *)
DecidesMutantAnyPlatform(web, isPoll) == isPoll
Decides(web, isPoll) == ~web /\ isPoll

(* the body parsed.  shape "data": result.success && result.data (App.js
   230-257); shape "nodata": neither branch is taken (the second branch needs
   an array carrying a `success` property, which no JSON text parses to). *)
FetchSucceed(i, shape) ==
    /\ i \in 1..Len(inflight)
    /\ inflight[i].phase = "body"
    /\ LET f == inflight[i]
           led0 == IF ~IsPoll(f.kind) THEN Seed(f.data, shown) ELSE shown
           start == [led |-> led0, fired |-> {}, count |-> alertCount]
           end == IF Decides(isWeb, IsPoll(f.kind))
                  THEN AlertLoop(f.data, 1, start, now)
                  ELSE start
       IN
       /\ Finish(i)
       /\ IF shape = "data"
          THEN /\ messages' = Merge(messages, f.data)
               /\ shown' = end.led
               /\ seeded' = (seeded \/ ~IsPoll(f.kind))
               /\ alertCount' = end.count
               /\ last' = Step("fetchOk", f.kind, f.data, NoEv, end.fired, FALSE, FALSE)
          ELSE /\ UNCHANGED << messages, shown, seeded, alertCount >>
               /\ last' = Client("fetchNoData", f.kind)
    /\ UNCHANGED << isWeb, now, events, socket, mounted, pollingTimer, nextTick,
                    nStarted >>
    /\ UNCHANGED serverVars

----------------------------------------------------------------------------

(* every step of the system, the clock moving through the instants of T *)
Steps(T) ==
    \/ \E t \in T : AdvanceClock(t)
    \/ \E id \in Ids, st \in {"Scheduled", "Sent"}, wd \in BOOLEAN, ed \in BOOLEAN :
          BackendCreate(id, st, wd, ed)
    \/ \E id \in Ids, wd \in BOOLEAN, ed \in BOOLEAN : BackendSend(id, wd, ed)
    \/ \E id \in Ids : BackendFail(id)
    \/ \E id \in Ids : BackendTouch(id)
    \/ \E k \in 1..Len(events) : StatusUpdate(k)
    \/ Tick
    \/ OnRefresh
    \/ TestSendRefresh
    \/ \E i \in 1..Len(messages) : Preview(i)
    \/ Teardown
    \/ \E i \in 1..Len(inflight) : FetchRespond(i)
    \/ \E i \in 1..Len(inflight), c \in {"network", "http", "timeout", "malformed"} :
          FetchFail(i, c)
    \/ \E i \in 1..Len(inflight), sh \in {"data", "nodata"} : FetchSucceed(i, sh)

Next == Steps(Instants)

Spec == Init /\ [][Next]_vars

(* the same system on the time line of the scenario of section 8: T0, T0 + 30 s,
   T0 + 40 s, and an instant past the first poll interval *)
T0 == 0
ScenarioInstants == {T0, T0 + 30000, T0 + 40000, T0 + 70000}

NextScenario == Steps(ScenarioInstants)

SpecScenario == Init /\ [][NextScenario]_vars

(* the same system with the progress the runtime guarantees to a call of
   fetchMessages: the network answers while the 10 s timer is pending, the
   timer fires when it is due, and a body that has arrived is parsed.  The
   clock visits the mount instant and one instant past the poll interval; the
   platform is a native one, where the mount effect arms the poll interval. *)
InitNative == Init /\ ~isWeb

LiveInstants == {0, PollIntervalMs + 1000}

NextLive == Steps(LiveInstants)

FetchProgress ==
    \E i \in 1..Len(inflight) :
        FetchRespond(i) \/ FetchFail(i, "timeout") \/ FetchSucceed(i, "data")

SpecLive == InitNative /\ [][NextLive]_vars /\ WF_vars(FetchProgress)

----------------------------------------------------------------------------
(* Vocabulary of the properties *)

Elems(batch) == {batch[i] : i \in 1..Len(batch)}

SentIdsOf(batch) == {m.id : m \in {x \in Elems(batch) : x.status = "Sent"}}

(* deliveredAt if present, otherwise updatedAt *)
EffectiveTimestamp(m) == IF m.deliveredAt = NoDate THEN m.updatedAt ELSE m.deliveredAt

Age(m) == now - EffectiveTimestamp(m)

BackgroundKinds == {"tick", "realtime"}
UserKinds == {"mount", "manual", "testsend"}

(* the step just taken is the successful completion of a fetch of one of `kinds` *)
Completed(kinds) == last.op = "fetchOk" /\ last.kind \in kinds

----------------------------------------------------------------------------
(* C1: the decision code fires an alert at most once per identity, whatever
   the interleaving of timer-tick and realtime-triggered fetch completions. *)
C1_AlertAtMostOnce == \A id \in Ids : alertCount[id] <= 1

(* a background completion carrying a Sent message inside the window skips it,
   the message having been alerted once by an earlier completion *)
C1_Witness ==
    /\ ~isWeb
    /\ Completed(BackgroundKinds)
    /\ \E m \in Elems(last.batch) :
          /\ m.status = "Sent"
          /\ Age(m) < RecencyWindowMs
          /\ m.id \notin last.fired
          /\ alertCount[m.id] = 1

(* C2: a successful background fetch on a native platform fires an alert for
   exactly the messages of its batch that are Sent, not in the Ledger and whose
   effective timestamp is less than two minutes old: one aged 119 s is alerted,
   one aged 121 s is not. *)
C2_AlertIffSentUnseenRecent ==
    (~isWeb /\ Completed(BackgroundKinds)) =>
        /\ last.fired = {m.id : m \in {x \in Elems(last.batch) :
                                          /\ x.status = "Sent"
                                          /\ x.id \notin last.shown0
                                          /\ Age(x) < RecencyWindowMs}}
        /\ \A m \in Elems(last.batch) :
              (m.status = "Sent" /\ m.id \notin last.shown0) =>
                 /\ Age(m) = 119000 => m.id \in last.fired
                 /\ Age(m) = 121000 => m.id \notin last.fired

(* one batch holds an unseen Sent message aged 119 s, which is alerted, and an
   unseen Sent message aged 121 s, which is not *)
C2_Witness ==
    /\ ~isWeb
    /\ Completed(BackgroundKinds)
    /\ \E m, n \in Elems(last.batch) :
          /\ m.status = "Sent" /\ n.status = "Sent"
          /\ m.id \notin last.shown0 /\ n.id \notin last.shown0
          /\ Age(m) = 119000 /\ m.id \in last.fired /\ m.id \in shown
          /\ Age(n) = 121000 /\ n.id \notin last.fired /\ n.id \notin shown

(* C3: the mount-time fetch, when it succeeds, fires no alert, and adds to the
   Ledger exactly the identities of its Sent messages. *)
C3_ColdStartSeeds ==
    Completed({"mount"}) =>
        /\ last.fired = {}
        /\ shown = last.shown0 \cup SentIdsOf(last.batch)

(* the mount fetch returned two Sent messages: no alert, both in the Ledger *)
C3_Witness ==
    /\ Completed({"mount"})
    /\ Cardinality(SentIdsOf(last.batch)) = 2
    /\ SentIdsOf(last.batch) \subseteq shown
    /\ \A id \in Ids : alertCount[id] = 0

(* C4: a manual refresh fires no alert, whatever the status, recency or Ledger
   membership of the messages it returns. *)
C4_ManualRefreshSilent ==
    Completed({"manual"}) =>
        /\ last.fired = {}
        /\ \A id \in IdsOf(last.batch) \ last.shown0 : alertCount[id] = 0

(* a manual refresh returned a Sent message stamped now that was not in the
   Ledger, and no alert was fired for it *)
C4_Witness ==
    /\ ~isWeb
    /\ Completed({"manual"})
    /\ \E m \in Elems(last.batch) :
          /\ m.status = "Sent"
          /\ Age(m) = 0
          /\ m.id \notin last.shown0
          /\ alertCount[m.id] = 0

----------------------------------------------------------------------------
(* the position of a status in a message's life on the server *)
Rank(st) == IF st = "Scheduled" THEN 0 ELSE 1

(* C5: once a realtime event has moved a stored message to a newer status, a
   fetch that answered before the event was handled and completes right after
   it does not put the message back to its earlier status. *)
C5_NoRegressByStaleFetch ==
    [][ ( /\ last.op = "statusUpdate"
          /\ \E p \in Elems(last.msgs0) :
                p.id = last.ev.messageId /\ Rank(p.status) < Rank(last.ev.status)
          /\ last'.op = "fetchOk" ) =>
          \A m \in Elems(messages), n \in Elems(messages') :
             (m.id = last.ev.messageId /\ n.id = m.id) =>
                Rank(n.status) >= Rank(m.status) ]_vars

(* C6: a successful fetch leaves the Store equal to the sequence it returned; a
   realtime update keeps the Store's identities and their order; no other
   client step changes the Store. *)
C6_FullFetchAuthority ==
    /\ Completed(Kinds) => messages = last.batch
    /\ last.op = "statusUpdate" =>
          /\ Len(messages) = Len(last.msgs0)
          /\ \A i \in 1..Len(messages) : messages[i].id = last.msgs0[i].id
    /\ last.op \in {"fetchFail", "fetchNoData", "tick", "refresh", "testSend",
                    "preview", "teardown"} => messages = last.msgs0

(* a fetch completed whose result lacks a message the Store held from an
   earlier result: the message is gone from the Store *)
C6_Witness ==
    /\ Completed(Kinds)
    /\ messages = last.batch
    /\ \E id \in IdsOf(last.msgs0) : id \notin IdsOf(messages)

(* C7 as stated: after a cold fetch that returned only a (Sent, updatedAt T0)
   and seeded the Ledger with it, the realtime-triggered fetch that returns a
   and b (Sent, deliveredAt T0 + 30 s) at T0 + 40 s fires exactly one alert,
   for b. *)
ScenarioCold ==
    /\ Completed({"mount"})
    /\ last.msgs0 = << >>
    /\ last.shown0 = {}
    /\ last.batch = << Msg("a", "Sent", NoDate, T0) >>

ScenarioRealtime ==
    /\ Completed({"realtime"})
    /\ now = T0 + 40000
    /\ last.shown0 = {"a"}
    /\ last.batch = << Msg("a", "Sent", NoDate, T0),
                       Msg("b", "Sent", T0 + 30000, T0 + 30000) >>

C7_ScenarioAnyPlatform ==
    /\ ScenarioCold => (last.fired = {} /\ shown = {"a"})
    /\ ScenarioRealtime => (last.fired = {"b"} /\ alertCount["b"] = 1)

(* C7, amended: the same on a native platform. *)
C7_ScenarioNative ==
    /\ ScenarioCold => (last.fired = {} /\ shown = {"a"})
    /\ (~isWeb /\ ScenarioRealtime) =>
          (last.fired = {"b"} /\ alertCount["b"] = 1 /\ shown = {"a", "b"})

C7_Witness == ~isWeb /\ ScenarioRealtime /\ last.fired = {"b"}

(* C8: the statusUpdate listener patches the Store, then calls
   fetchMessages(true) exactly when the event's status is Sent and its identity
   is not in the Ledger; it fires no alert and leaves the Ledger alone. *)
C8_ListenerTriggersFetch ==
    [][ last'.op = "statusUpdate" =>
          LET ev == last'.ev
              wanted == ev.status = "Sent" /\ ev.messageId \notin shown
          IN
          /\ \A i \in 1..Len(messages') :
                messages[i].id = ev.messageId => messages'[i].status = ev.status
          /\ wanted => /\ Len(inflight') = Len(inflight) + 1
                       /\ inflight'[Len(inflight')].kind \in BackgroundKinds
                       /\ inflight'[Len(inflight')].phase = "sent"
          /\ ~wanted => inflight' = inflight
          /\ alertCount' = alertCount
          /\ shown' = shown
          /\ last'.fired = {} ]_vars

(* a Sent event for a stored, unseen message was handled: the Store shows it
   Sent and a background fetch is in flight, no alert fired *)
C8_Witness ==
    /\ last.op = "statusUpdate"
    /\ last.ev.status = "Sent"
    /\ last.ev.messageId \notin shown
    /\ \E m \in Elems(last.msgs0) : m.id = last.ev.messageId /\ m.status = "Scheduled"
    /\ \E m \in Elems(messages) : m.id = last.ev.messageId /\ m.status = "Sent"
    /\ Len(inflight) > 0
    /\ inflight[Len(inflight)].kind = "realtime"
    /\ alertCount[last.ev.messageId] = 0

(* C9: no step removes an identity from the Ledger. *)
C9_LedgerMonotone == [][shown \subseteq shown']_vars

(* a fetch completed whose result does not hold an identity of the Ledger, and
   the identity is still there *)
C9_Witness ==
    /\ Completed(Kinds)
    /\ \E id \in last.shown0 : id \notin IdsOf(last.batch) /\ id \in shown

(* C10: identities enter the Ledger only in the bulk seeding of the cold start
   (the mount-time fetch, or the first fetch to run the bulk marking), or one by
   one as their alert is fired. *)
C10_InsertOnlyColdStartOrAlert ==
    last.op # "env" =>
        \/ shown = last.shown0
        \/ Completed({"mount"})
        \/ Completed(UserKinds) /\ last.cold
        \/ shown \ last.shown0 = last.fired

(* C11: a failed fetch (network error, timeout abort, non-success response,
   unparsable body) leaves the Store and the Ledger as they were and fires no
   alert. *)
C11_FailureMutatesNothing ==
    [][ last'.op = "fetchFail" =>
          /\ messages' = messages
          /\ shown' = shown
          /\ alertCount' = alertCount
          /\ last'.fired = {} ]_vars

(* a poll-mode fetch fails on a native platform while the Store holds a recent
   Sent message that is not in the Ledger *)
C11_Witness ==
    /\ last.op = "fetchFail"
    /\ ~isWeb
    /\ last.kind \in BackgroundKinds
    /\ \E m \in Elems(messages) :
          m.status = "Sent" /\ m.id \notin shown /\ Age(m) < RecencyWindowMs

(* C12: a failed fetch raises the error dialog exactly when it was started by
   the user (non-poll); a failed background fetch leaves the loading and
   refreshing indicators alone. *)
C12_DialogIffUserInitiated ==
    [][ last'.op = "fetchFail" =>
          /\ last'.dialog <=> last'.kind \in UserKinds
          /\ last'.kind \in BackgroundKinds =>
                (loading' = loading /\ refreshing' = refreshing) ]_vars

(* a background fetch fails silently while a manual refresh is pending *)
C12_Witness ==
    /\ last.op = "fetchFail"
    /\ last.kind \in BackgroundKinds
    /\ ~last.dialog
    /\ loading
    /\ refreshing

(* C13: once the cleanup has run the interval is dead: no later step is a
   timer tick, whatever the clock shows, however many ticks fired before and
   whether or not a fetch is still in flight. *)
C13_NoTickAfterStop ==
    [][ ~mounted =>
          /\ last'.op # "tick"
          /\ nextTick' = nextTick
          /\ ~pollingTimer' ]_vars

(* torn down on a native platform after one tick has fired, with a fetch still
   in flight, the next tick overdue and the run's budget allowing a fetch *)
C13_Witness ==
    /\ ~mounted
    /\ ~isWeb
    /\ nextTick > PollIntervalMs
    /\ now >= nextTick
    /\ CanFetch
    /\ Len(inflight) > 0

(* C14: a realtime event whose identity is not in the Store leaves the Store
   as it was; one whose identity is in the Store changes the matching message
   only: the messages keep their number, their order and their identities. *)
C14_PartialUpdateFrame ==
    last.op = "statusUpdate" =>
        /\ Len(messages) = Len(last.msgs0)
        /\ \A i \in 1..Len(last.msgs0) :
              /\ messages[i].id = last.msgs0[i].id
              /\ last.msgs0[i].id # last.ev.messageId => messages[i] = last.msgs0[i]
        /\ last.ev.messageId \notin IdsOf(last.msgs0) => messages = last.msgs0

(* an event for an identity the Store does not hold, the Store holding another
   message *)
C14_Witness ==
    /\ last.op = "statusUpdate"
    /\ last.msgs0 # << >>
    /\ last.ev.messageId \notin IdsOf(last.msgs0)

(* C15: an event that carries a status and no delivered timestamp changes the
   status of the matching message and nothing else: the delivered timestamp
   the Store held for it stays. *)
C15_PartialKeepsDeliveredAt ==
    (last.op = "statusUpdate" /\ last.ev.deliveredAt = NoDate) =>
        \A i \in 1..Len(last.msgs0) :
            i <= Len(messages) /\ last.msgs0[i].id = last.ev.messageId =>
                messages[i] = [last.msgs0[i] EXCEPT !.status = last.ev.status]

(* C16: the Test button of every message in the Store can be pressed in every
   state of the mounted component, and each press presents that one message,
   whatever its status, its age or its membership in the Ledger, and changes
   neither the Store nor the Ledger nor the count of decided alerts. *)
C16_PreviewBypassesDecision ==
    /\ [](mounted => \A i \in 1..Len(messages) : ENABLED Preview(i))
    /\ [](last.op = "preview" =>
            /\ shown = last.shown0
            /\ messages = last.msgs0
            /\ \E m \in Elems(messages) : last.fired = {m.id})
    /\ [][ last'.op = "preview" =>
             UNCHANGED << messages, shown, alertCount >> ]_vars

(* the preview of a message that is in the Ledger and older than the window *)
C16_Witness ==
    /\ last.op = "preview"
    /\ \E m \in Elems(messages) :
          /\ last.fired = {m.id}
          /\ m.id \in shown
          /\ Age(m) > RecencyWindowMs

(* C17: a fetch that is still in flight when its 10 s timer is due ends as a
   failure: it leaves the run through the catch block, never through the
   processing of a result. *)
C17_OverdueFetchFails ==
    [][ \A i \in 1..Len(inflight) :
          (now >= inflight[i].t0 + FetchTimeoutMs /\ inflight' = Remove(inflight, i))
             => last'.op = "fetchFail" ]_vars

(* C18: once the server's collection has stopped changing, a timer-tick fetch
   that is awaiting its answer leads to a Store equal to the server's
   collection, whatever realtime events were lost, unless that fetch fails
   (or is answered without data). *)
BackendSettled == ~CanChange

PollPending ==
    /\ ~isWeb
    /\ BackendSettled
    /\ \E i \in 1..Len(inflight) :
          inflight[i].kind = "tick" /\ inflight[i].phase = "sent"

PollFailed == last.op \in {"fetchFail", "fetchNoData"} /\ last.kind = "tick"

C18_PollConverges == PollPending ~> (messages = backend \/ PollFailed)

(* a timer-tick fetch completes after the last server change and brings a
   stale Store up to the server's collection while an event is still
   undelivered *)
C18_Witness ==
    /\ Completed({"tick"})
    /\ BackendSettled
    /\ last.msgs0 # backend
    /\ messages = backend
    /\ events # << >>

(* C19: the cleanup can always be run, also again and also where the interval
   was never armed (web); each run ends in the same state: unmounted, the
   interval dead, the socket closed, the Store and the Ledger untouched; a
   repeated run changes nothing. *)
C19_TeardownIdempotent ==
    /\ [](ENABLED Teardown)
    /\ [](last.op = "teardown" =>
            /\ ~mounted /\ ~pollingTimer /\ socket = "closed"
            /\ messages = last.msgs0 /\ shown = last.shown0)
    /\ [][ (~mounted /\ last'.op = "teardown") =>
             /\ last'.kind = "repeat"
             /\ UNCHANGED clientVars ]_vars

(* the cleanup run a second time on the web platform, where no interval was
   ever armed, with a fetch still in flight *)
C19_Witness ==
    /\ last.op = "teardown"
    /\ last.kind = "repeat"
    /\ isWeb
    /\ Len(inflight) > 0

(* C20: the decision code fires no alert before the Ledger has been seeded:
   as long as no bulk marking has run (no mount-time or other non-poll fetch
   has completed with data), no identity has been alerted. *)
C20_NoAlertBeforeSeeding ==
    (\E id \in Ids : alertCount[id] > 0) => seeded

(* C21: a failed fetch starts no fetch: the failure only takes its own call
   out of flight; the next call of fetchMessages comes with a later tick,
   event or user action. *)
C21_NoSynchronousRetry ==
    [][ last'.op = "fetchFail" =>
          /\ nStarted' = nStarted
          /\ Len(inflight') = Len(inflight) - 1
          /\ ~last'.started ]_vars

(* a fetch has failed, nothing is in flight any more, and the run could still
   start a fetch *)
C21_Witness ==
    /\ last.op = "fetchFail"
    /\ inflight = << >>
    /\ CanFetch

(* C22: every identity the decision code has alerted for is in the Ledger. *)
C22_AlertedInLedger == \A id \in Ids : alertCount[id] > 0 => id \in shown

(* a background completion has just fired an alert for an identity that was
   not in the Ledger when the step began *)
C22_Witness ==
    /\ Completed(BackgroundKinds)
    /\ \E id \in last.fired :
          id \notin last.shown0 /\ alertCount[id] = 1 /\ id \in shown

(* C23: a successful user-initiated fetch (mount, manual refresh, refresh after
   a test send) puts every Sent message of its batch into the Ledger; from
   then on an identity that is in the Ledger without ever having been alerted
   is never alerted by the decision code, and a realtime Sent event for it
   starts no fetch. *)
C23_SeededNeverAlerted ==
    /\ [](Completed(UserKinds) => SentIdsOf(last.batch) \subseteq shown)
    /\ [][ \A id \in shown :
             alertCount[id] = 0 =>
                /\ alertCount'[id] = 0
                /\ (last'.op = "fetchOk" /\ last'.kind \in BackgroundKinds)
                      => id \notin last'.fired
                /\ (last'.op = "statusUpdate" /\ last'.ev.messageId = id)
                      => ~last'.started ]_vars

(* on a native platform a background fetch returns, as Sent and inside the
   window, a message that a user-initiated fetch had put into the Ledger
   without an alert, and fires nothing for it *)
C23_Witness ==
    /\ ~isWeb
    /\ Completed(BackgroundKinds)
    /\ \E m \in Elems(last.batch) :
          /\ m.status = "Sent"
          /\ Age(m) < RecencyWindowMs
          /\ m.id \in last.shown0
          /\ alertCount[m.id] = 0
          /\ m.id \notin last.fired

(* C24: on the web platform no poll interval is armed and no tick happens; no
   fetch completion fires an alert; the Ledger changes only in the successful
   completion of a user-initiated fetch. *)
C24_WebNeverAlerts ==
    isWeb =>
        /\ ~pollingTimer
        /\ last.op # "tick"
        /\ \A id \in Ids : alertCount[id] = 0
        /\ last.op = "fetchOk" => last.fired = {}
        /\ last.op # "env" => (shown = last.shown0 \/ Completed(UserKinds))

(* on the web platform a realtime-triggered fetch returns a Sent message that
   is inside the window and not in the Ledger, and leaves the Ledger alone *)
C24_Witness ==
    /\ isWeb
    /\ Completed({"realtime"})
    /\ \E m \in Elems(last.batch) :
          m.status = "Sent" /\ Age(m) < RecencyWindowMs /\ m.id \notin shown

====
